---------------------------- MODULE Spec2Model ----------------------------
(***************************************************************************)
(* A model of the tender intelligence platform                            *)
(* (src/Tender_Intelligence_Platform.py): the keyword analyzer and its    *)
(* two external scoring calls, the site scrapers, the monitor's scan      *)
(* (monitor_all_sites) and the opportunity store (_save_opportunity,      *)
(* _load_recent_opportunities).                                           *)
(*                                                                         *)
(* Python values are represented as follows.  A str is a TLA+ string      *)
(* (TLC evaluates Len, \o and SubSeq on strings, so slicing, concatenation *)
(* and substring tests are computed on the characters).  An Enum member   *)
(* is the string of its NAME; its value and its str() are tables.  An     *)
(* Optional value is None or Some(v).  A datetime is a day number (the    *)
(* date part is all the store reads).                                     *)
(***************************************************************************)
EXTENDS Integers, Sequences, FiniteSets, TLC

VARIABLES
    tender_sites,       \* ActuarialTenderMonitor.tender_sites (the registry)
    today,              \* datetime.now().date(), as a day number
    files,              \* the *.json files of data_dir: file name -> content
    pc,                 \* position of the running scan
    scans,              \* calls of monitor_all_sites so far
    site_idx,           \* monitor_all_sites: index of `site` in tender_sites
    items_left,         \* the scraper's loop: listing elements still to visit
    listings_left,      \* listing elements the sites still publish in this scan
    opportunities,      \* the current site's `opportunities` list
    opp_idx,            \* monitor_all_sites: index of the analysis / save loop
    all_opportunities,  \* monitor_all_sites: all_opportunities
    outcome,            \* how the last scan ended: its return value or a raise
    log,                \* what the scan has logged with logger.error: site, stage
    site_records,       \* history: site index -> the site's records as analyzed
    loaded,             \* the result of the last _load_recent_opportunities,
                        \* None once a file has been written since
    call                \* the last direct call of the analyzer: arguments, results

vars == <<tender_sites, today, files, pc, scans, site_idx, items_left,
          listings_left, opportunities, opp_idx, all_opportunities, outcome,
          log, site_records, loaded, call>>

-----------------------------------------------------------------------------
(* Bounds of the model.                                                    *)

\* Number of sites in the registry.
MaxSites == 2
\* Listing elements the sites publish, together, during one scan.
MaxListings == 2
\* Calls of monitor_all_sites.
MaxScans == 1
\* The last day of the calendar.
MaxDay == 2
\* Characters of the context-scoring reply that are enumerated.
MaxContentLen == 2
\* Length of the longest keyword list given to the scoring function alone.
MaxMatched == 7

\* Most selectors in one list of candidates (the title has five, line 434).
MaxSelectors == 3

-----------------------------------------------------------------------------
(* Small helpers.                                                          *)

Min(a, b) == IF a <= b THEN a ELSE b

Max(a, b) == IF a >= b THEN a ELSE b

\* Optional[...]: None, or a value.
None == [none |-> TRUE]

Some(v) == [none |-> FALSE, value |-> v]

\* The elements of a sequence.
Range(s) == {s[i] : i \in 1..Len(s)}

\* [x for x in s if keep[x]]
RECURSIVE SelectList(_, _)
SelectList(s, keep) ==
    IF s = <<>> THEN <<>>
    ELSE IF Head(s) \in keep THEN <<Head(s)>> \o SelectList(Tail(s), keep)
    ELSE SelectList(Tail(s), keep)

-----------------------------------------------------------------------------
(* Python str operations, on the characters.                               *)

UpperToLower ==
    [A |-> "a", B |-> "b", C |-> "c", D |-> "d", E |-> "e", F |-> "f",
     G |-> "g", H |-> "h", I |-> "i", J |-> "j", K |-> "k", L |-> "l",
     M |-> "m", N |-> "n", O |-> "o", P |-> "p", Q |-> "q", R |-> "r",
     S |-> "s", T |-> "t", U |-> "u", V |-> "v", W |-> "w", X |-> "x",
     Y |-> "y", Z |-> "z"]

\* str.lower()
RECURSIVE lower(_)
lower(s) ==
    IF s = "" THEN ""
    ELSE IF Len(s) = 1 THEN (IF s \in DOMAIN UpperToLower THEN UpperToLower[s] ELSE s)
    ELSE LET half == Len(s) \div 2
         IN  lower(SubSeq(s, 1, half)) \o lower(SubSeq(s, half + 1, Len(s)))

\* `sub in s`
contains(sub, s) ==
    \E i \in 1..(Len(s) - Len(sub) + 1) : SubSeq(s, i, i + Len(sub) - 1) = sub

\* s[:n]
prefix(s, n) == SubSeq(s, 1, Min(n, Len(s)))

\* str.strip(), for the blank
RECURSIVE strip(_)
strip(s) ==
    IF s = "" THEN ""
    ELSE IF SubSeq(s, 1, 1) = " " THEN strip(SubSeq(s, 2, Len(s)))
    ELSE IF SubSeq(s, Len(s), Len(s)) = " " THEN strip(SubSeq(s, 1, Len(s) - 1))
    ELSE s

\* str.replace(old, new) for a one-character old
RECURSIVE replace(_, _, _)
replace(s, old, new) ==
    IF s = "" THEN ""
    ELSE (IF SubSeq(s, 1, 1) = old THEN new ELSE SubSeq(s, 1, 1))
             \o replace(SubSeq(s, 2, Len(s)), old, new)

DigitValue ==
    [c \in {"0", "1", "2", "3", "4", "5", "6", "7", "8", "9"} |->
        CASE c = "0" -> 0 [] c = "1" -> 1 [] c = "2" -> 2 [] c = "3" -> 3
          [] c = "4" -> 4 [] c = "5" -> 5 [] c = "6" -> 6 [] c = "7" -> 7
          [] c = "8" -> 8 [] c = "9" -> 9]

AllDigits(s) ==
    /\ s # ""
    /\ \A i \in 1..Len(s) : SubSeq(s, i, i) \in DOMAIN DigitValue

RECURSIVE DigitsValue(_)
DigitsValue(s) ==
    IF s = "" THEN 0
    ELSE 10 * DigitsValue(SubSeq(s, 1, Len(s) - 1))
            + DigitValue[SubSeq(s, Len(s), Len(s))]

\* int(s): [ok |-> FALSE] when Python raises ValueError, else the integer.
\* Python accepts surrounding blanks, one sign and decimal digits.
py_int(s) ==
    LET t    == strip(s)
        sign == IF t # "" /\ SubSeq(t, 1, 1) \in {"-", "+"} THEN SubSeq(t, 1, 1) ELSE ""
        body == IF sign = "" THEN t ELSE SubSeq(t, 2, Len(t))
    IN  IF ~AllDigits(body) THEN [ok |-> FALSE]
        ELSE IF sign = "-" THEN [ok |-> TRUE, value |-> 0 - DigitsValue(body)]
        ELSE [ok |-> TRUE, value |-> DigitsValue(body)]

-----------------------------------------------------------------------------
(* The enumerations (lines 38-58).  A member is written by its name.       *)

\* TenderStatus: member name -> value
TenderStatus ==
    [OPEN |-> "open", CLOSING_SOON |-> "closing_soon", CLOSED |-> "closed",
     AWARDED |-> "awarded"]

\* OpportunityScore: member name -> value
OpportunityScore ==
    [HIGH |-> "high", MEDIUM |-> "medium", LOW |-> "low", MINIMAL |-> "minimal"]

\* ServiceArea: member name -> value
ServiceArea ==
    [IFRS17 |-> "ifrs17", PENSION_CONSULTING |-> "pension_consulting",
     ERM |-> "enterprise_risk_management", ESG_CONSULTING |-> "esg_consulting",
     REGULATORY_COMPLIANCE |-> "regulatory_compliance",
     ACTUARIAL_SERVICES |-> "actuarial_services",
     INVESTMENT_CONSULTING |-> "investment_consulting",
     GOVERNANCE_RISK |-> "governance_risk"]

\* str(member) of a plain Enum: "ClassName.MEMBER"
enum_str(class, member) == class \o "." \o member

\* EnumClass(value): the member with that value, or a ValueError
enum_of_value(enum, value) ==
    IF \E m \in DOMAIN enum : enum[m] = value
    THEN [ok |-> TRUE, member |-> CHOOSE m \in DOMAIN enum : enum[m] = value]
    ELSE [ok |-> FALSE]

-----------------------------------------------------------------------------
(* ActuarialTenderAnalyzer (lines 111-289).                                *)

\* self.service_keywords, in the dict's insertion order
service_keywords ==
  <<
    [area |-> "IFRS17", keywords |-> <<
        "IFRS 17", "ifrs17", "insurance contracts", "financial reporting",
        "contract boundaries", "CSM", "risk adjustment", "onerous contracts",
        "premium allocation approach", "general measurement model" >>],
    [area |-> "PENSION_CONSULTING", keywords |-> <<
        "pension", "retirement", "actuarial valuation", "pension scheme",
        "pension fund", "retirement solutions", "defined benefit",
        "defined contribution", "pension regulations", "pension audit",
        "pension risk", "retirement planning" >>],
    [area |-> "ERM", keywords |-> <<
        "enterprise risk management", "ERM", "risk framework",
        "risk appetite", "risk modelling", "risk assessment",
        "risk quantification", "stress testing", "scenario analysis",
        "risk governance", "risk based capital", "solvency" >>],
    [area |-> "ESG_CONSULTING", keywords |-> <<
        "ESG", "sustainability", "climate risk", "environmental risk",
        "social responsibility", "governance", "sustainable finance",
        "climate change", "carbon footprint", "green finance" >>],
    [area |-> "REGULATORY_COMPLIANCE", keywords |-> <<
        "regulatory compliance", "regulatory affairs", "compliance audit",
        "statutory reporting", "regulatory policy", "financial regulation",
        "prudential regulation", "capital requirements",
        "regulatory framework" >>],
    [area |-> "ACTUARIAL_SERVICES", keywords |-> <<
        "actuarial", "actuarial services", "actuarial analysis",
        "actuarial valuation", "actuarial consulting", "actuarial audit",
        "reserving", "pricing", "product development", "embedded value",
        "financial condition" >>],
    [area |-> "INVESTMENT_CONSULTING", keywords |-> <<
        "investment consulting", "asset liability matching",
        "investment policy", "portfolio management", "investment strategy",
        "asset allocation", "investment risk", "market risk", "ALM",
        "asset liability" >>],
    [area |-> "GOVERNANCE_RISK", keywords |-> <<
        "governance", "corporate governance", "risk governance",
        "board advisory", "risk committee", "audit committee",
        "governance framework", "risk culture", "governance training",
        "risk oversight" >>]
  >>

\* self.all_keywords: the keyword lists, flattened in order
RECURSIVE flatten(_)
flatten(lists) ==
    IF lists = <<>> THEN <<>> ELSE Head(lists).keywords \o flatten(Tail(lists))

all_keywords == flatten(service_keywords)

\* The lowered keywords, computed once.
all_keywords_lower == [i \in 1..Len(all_keywords) |-> lower(all_keywords[i])]

\* _find_keywords: every entry of all_keywords whose lowered form occurs in the
\* lowered text, in the order of all_keywords
find_keywords(text) ==
    LET text_lower == lower(text)
        hit == {i \in 1..Len(all_keywords) : contains(all_keywords_lower[i], text_lower)}
        RECURSIVE collect(_)
        collect(i) ==
            IF i > Len(all_keywords) THEN <<>>
            ELSE (IF i \in hit THEN <<all_keywords[i]>> ELSE <<>>) \o collect(i + 1)
    IN  collect(1)

\* _identify_service_areas: the areas, in dict order, one of whose keywords is
\* among `keywords`
identify_service_areas(keywords) ==
    LET matches(i) == \E k \in Range(keywords) : k \in Range(service_keywords[i].keywords)
        RECURSIVE collect(_)
        collect(i) ==
            IF i > Len(service_keywords) THEN <<>>
            ELSE (IF matches(i) THEN <<service_keywords[i].area>> ELSE <<>>)
                     \o collect(i + 1)
    IN  collect(1)

\* Points per matched keyword, the cap of the keyword score, the range of the
\* context score and its default (lines 209, 234, 237).
KeywordPoints == 10

KeywordScoreCap == 60

ContextScoreMax == 40

ContextScoreDefault == 20

\* The bucket thresholds (lines 241-246).
HighThreshold == 80

MediumThreshold == 50

LowThreshold == 20

\* line 209
keyword_score(keywords) == Min(Len(keywords) * KeywordPoints, KeywordScoreCap)

\* context_score without the clamp of line 234.
context_score_unclamped(reply) ==
    IF reply.kind = "raise" THEN ContextScoreDefault
    ELSE IF reply.content = None THEN ContextScoreDefault
    ELSE LET n == py_int(strip(reply.content.value))
         IN  IF ~n.ok THEN ContextScoreDefault ELSE n.value

\* lines 212-237: the reply of the context-scoring call is an exception, or a
\* message whose content is None or a str.
context_score(reply) ==
    IF reply.kind = "raise" THEN ContextScoreDefault
    ELSE IF reply.content = None THEN ContextScoreDefault  \* None.strip()
    ELSE LET n == py_int(strip(reply.content.value))
         IN  IF ~n.ok THEN ContextScoreDefault
             ELSE Max(0, Min(ContextScoreMax, n.value))

\* bucket with thresholds that are exclusive lower bounds.
bucket_exclusive(total_score) ==
    IF total_score > HighThreshold THEN "HIGH"
    ELSE IF total_score > MediumThreshold THEN "MEDIUM"
    ELSE IF total_score > LowThreshold THEN "LOW"
    ELSE "MINIMAL"

\* lines 239-248
bucket(total_score) ==
    IF total_score >= HighThreshold THEN "HIGH"
    ELSE IF total_score >= MediumThreshold THEN "MEDIUM"
    ELSE IF total_score >= LowThreshold THEN "LOW"
    ELSE "MINIMAL"

\* _calculate_opportunity_score
calculate_opportunity_score(keywords, reply) ==
    bucket(keyword_score(keywords) + context_score(reply))

LowerToUpper ==
    [c \in {UpperToLower[u] : u \in DOMAIN UpperToLower} |->
        CHOOSE u \in DOMAIN UpperToLower : UpperToLower[u] = c]

IsLetter(c) == c \in DOMAIN UpperToLower \/ c \in DOMAIN LowerToUpper

\* str.title(): a letter after a non-letter is uppercased, any other lowered
RECURSIVE title_from(_, _)
title_from(s, prev) ==
    IF s = "" THEN ""
    ELSE LET c == SubSeq(s, 1, 1)
             d == IF IsLetter(prev)
                  THEN (IF c \in DOMAIN UpperToLower THEN UpperToLower[c] ELSE c)
                  ELSE (IF c \in DOMAIN LowerToUpper THEN LowerToUpper[c] ELSE c)
         IN  d \o title_from(SubSeq(s, 2, Len(s)), c)

\* sep.join(list)
RECURSIVE join(_, _)
join(sep, list) ==
    IF list = <<>> THEN ""
    ELSE IF Len(list) = 1 THEN list[1]
    ELSE list[1] \o sep \o join(sep, Tail(list))

\* line 253
service_areas_text(service_areas) ==
    join(", ", [i \in 1..Len(service_areas) |->
                   title_from(replace(ServiceArea[service_areas[i]], "_", " "), " ")])

\* line 289
analysis_fallback(service_areas) ==
    "Analysis error occurred. Manual review required. Matched areas: "
        \o service_areas_text(service_areas)

\* _generate_ai_analysis with an empty text in place of the fallback.
generate_ai_analysis_empty(service_areas, reply) ==
    IF reply.kind = "raise" THEN Some("")
    ELSE reply.content

\* _generate_ai_analysis: the reply of the narrative call is an exception, or a
\* message whose content (None or a str) is returned as it is.
generate_ai_analysis(service_areas, reply) ==
    IF reply.kind = "raise" THEN Some(analysis_fallback(service_areas))
    ELSE reply.content

\* analyze_tender, with the replies of its two external calls.  The locals
\* matched_keywords and context_score are kept in the result.
analyze_tender(tender_text, tender_title, ctx_reply, narrative_reply) ==
    LET matched_keywords == find_keywords(tender_text \o " " \o tender_title)
        matched_service_areas == identify_service_areas(matched_keywords)
    IN  [matched_keywords |-> matched_keywords,
         context_score |-> context_score(ctx_reply),
         opportunity_score |-> calculate_opportunity_score(matched_keywords, ctx_reply),
         service_areas |-> matched_service_areas,
         ai_analysis |-> generate_ai_analysis(matched_service_areas, narrative_reply)]

-----------------------------------------------------------------------------
(* The environment: what the sites publish and what the external calls    *)
(* reply.  These are the inputs of the model.                              *)

\* The registry is a prefix of this catalog: a site the UNGM branch of the
\* dispatch takes, then sites of the default registry (lines 570-592).
SiteCatalog ==
    << [name |-> "UNGM", url |-> "https://www.ungm.org/Public/Notice"],
       [name |-> "Africa Gateway", url |-> "https://www.africagateway.org/"],
       [name |-> "TED Europa", url |-> "https://ted.europa.eu/udl"],
       [name |-> "PPIP Kenya", url |-> "https://www.ppip.go.ke/"] >>

\* A listing element of a page, by what the selectors of _extract_tender_info
\* find in it: the title and description texts ("" when no selector matches),
\* the text of the id element (None when there is none), the closing date, and
\* whether reading it raises (an <a> without href, line 448).
Listings ==
    { [title |-> "", description |-> "IFRS 17 pension fund solvency ESG pricing reserving"],
      [title |-> "Road Works", description |-> ""],
      [title |-> "Risk Management", description |-> ""],
      [title |-> "Risk Management", description |-> "Enterprise"],
      [title |-> "Pension Fund Audit", description |-> ""],
      [title |-> "Actuarial Services", description |-> ""],
      [title |-> "Actuarial Services",
       description |-> "IFRS 17 pension fund solvency ESG pricing reserving"] }

ListingIds == {None, Some("T/1")}

ClosingDates == {None}

Elements ==
    { [title |-> l.title, description |-> l.description, id |-> i,
       closing |-> c, broken |-> b] :
         l \in Listings, i \in ListingIds, c \in ClosingDates, b \in BOOLEAN }

\* The replies of the context-scoring call during a scan.
ScanContextReplies ==
    { [kind |-> "raise"],
      [kind |-> "ok", content |-> Some("0")],
      [kind |-> "ok", content |-> Some("40")] }

\* The replies of the narrative call during a scan.
ScanNarrativeReplies ==
    { [kind |-> "raise"], [kind |-> "ok", content |-> Some("Strong fit.")] }

\* hash(title) of Python, as decimal digits.  The value depends on the
\* interpreter's hash seed; the table is one choice.
title_hash(title) ==
    CASE title = "Road Works" -> "1"
      [] title = "Risk Management" -> "2"
      [] title = "Actuarial Services" -> "3"
      [] OTHER -> "0"

-----------------------------------------------------------------------------
(* TenderScraper (lines 291-512).                                          *)

\* Lengths kept of a title and of a description (lines 453-454).
TitleMaxLen == 200

DescriptionMaxLen == 1000

\* scrape_tender_site, lines 305-313: the strategy the site's name and url select
strategy(site) ==
    IF lower(site.name) \in {"ungm", "united nations"} THEN "ungm"
    ELSE IF lower(site.name) \in {"world bank", "worldbank"} THEN "worldbank"
    ELSE IF contains("ted", lower(site.name)) \/ contains("europa", site.url) THEN "ted"
    ELSE "generic"

\* _extract_text (lines 481-487).  found[k] is what element.select_one gives
\* for the k-th selector: None when nothing matches, Some(text) when an
\* element matches, text being the characters it holds.  A matched element
\* is truthy whatever it holds, so the first match ends the loop;
\* get_text(strip=True) strips its text.
RECURSIVE extract_text(_)
extract_text(found) ==
    IF found = <<>> THEN ""
    ELSE IF Head(found) # None THEN strip(Head(found).value)
    ELSE extract_text(Tail(found))

\* _extract_tender_info without the check of the title (lines 437-438).
extract_tender_info_any_title(element, site, now) ==
    IF element.broken THEN None
    ELSE Some([title |-> prefix(element.title, TitleMaxLen),
               description |-> prefix(element.description, DescriptionMaxLen),
               tender_id |-> IF element.id # None /\ element.id.value # ""
                             THEN element.id.value
                             ELSE "AUTO_" \o title_hash(element.title),
               source_site |-> site.name,
               closing_date |-> element.closing,
               status |-> "OPEN",
               service_areas_matched |-> <<>>,
               keywords_matched |-> <<>>,
               opportunity_score |-> "LOW",
               ai_analysis |-> Some(""),
               timestamp |-> now])

\* _extract_tender_info: None, or Some(record).  An exception raised while the
\* element is read is caught (lines 477-479) and gives None as well.
extract_tender_info(element, site, now) ==
    IF element.title = "" THEN None
    ELSE IF element.broken THEN None
    ELSE Some([title |-> prefix(element.title, TitleMaxLen),
               description |-> prefix(element.description, DescriptionMaxLen),
               tender_id |-> IF element.id # None /\ element.id.value # ""
                             THEN element.id.value
                             ELSE "AUTO_" \o title_hash(element.title),
               source_site |-> site.name,
               closing_date |-> element.closing,
               status |-> "OPEN",
               service_areas_matched |-> <<>>,
               keywords_matched |-> <<>>,
               opportunity_score |-> "LOW",
               ai_analysis |-> Some(""),
               timestamp |-> now])

\* _contains_relevant_keywords
contains_relevant_keywords(text, keywords) ==
    \E i \in 1..Len(keywords) : contains(lower(keywords[i]), lower(text))

-----------------------------------------------------------------------------
(* ActuarialTenderMonitor (lines 514-770).                                 *)

\* self.primary_keywords and self.extended_keywords (lines 527-548)
primary_keywords ==
  <<
    "IFRS 17", "actuarial services", "risk management", "pension consulting",
    "asset liability matching", "enterprise risk management",
    "Insurance Advisory", "ESG Consulting"
  >>

extended_keywords ==
  <<
    "Financial and Regulatory Affairs", "Regulatory Policy and Strategy",
    "Regulatory Compliance", "Liaison with Regulators",
    "Mergers, Demergers and Acquisitions", "Entry into New Markets",
    "Corporate Governance and Training", "Market Surveys",
    "Enterprise Risk Management",
    "Enterprise Risk Management Framework Gap Analysis",
    "Quantification of Risk including Risk Modelling", "Risk Appetite",
    "Risk based Capital Management", "Actuarial Services",
    "Financial Condition Reports", "Product Development",
    "Embedded value calculation", "Capital Management Report",
    "Investment Policy Statement", "Pension Consulting",
    "Financial Reporting", "Insurance Regulation", "Actuarial Analysis",
    "Stress Testing", "Sustainability Consulting",
    "Governance, Risk & Compliance", "Data Protection and Privacy",
    "Pension Scheme Design", "Actuarial Valuation", "Claims Management",
    "Reinsurance Consulting", "Underwriting Solutions",
    "Insurance Product Design", "Reserving Methodology",
    "Risk Assessment Tools", "Healthcare Actuarial Consulting",
    "Investment Consulting", "Pension Fund Management",
    "Retirement Solutions", "Actuarial Audit", "Compliance Audit",
    "Statutory Reporting"
  >>

\* self.all_keywords of the monitor (line 550)
monitor_keywords == primary_keywords \o extended_keywords

\* A filter that keeps LOW records too.
relevant_scores_with_low == {"HIGH", "MEDIUM", "LOW"}

\* The scores monitor_all_sites keeps (line 646).
relevant_scores == {"HIGH", "MEDIUM"}

\* Lines 630-641: the record after its analysis.  analyze_tender is given the
\* description, a blank and the title as its text; keywords_matched is a
\* second _find_keywords, on the title, a blank and the description.
analyzed(opportunity, ctx_reply, narrative_reply) ==
    LET a == analyze_tender(opportunity.description \o " " \o opportunity.title,
                            opportunity.title, ctx_reply, narrative_reply)
    IN  [opportunity EXCEPT
            !.opportunity_score = a.opportunity_score,
            !.service_areas_matched = a.service_areas,
            !.ai_analysis = a.ai_analysis,
            !.keywords_matched =
                find_keywords(opportunity.title \o " " \o opportunity.description)]

\* Lines 644-647
relevant_opportunities(opps) ==
    SelectList(opps, {o \in Range(opps) : o.opportunity_score \in relevant_scores})

\* Line 668: the file name, as its date part and its id part.  The name is
\* "<YYYYMMDD>_<id>.json"; the date part has a fixed width, so two names are
\* equal exactly when both parts are.
filename(opportunity) ==
    [date |-> opportunity.timestamp,
     id |-> replace(opportunity.tender_id, "/", "_")]

\* str(datetime), an ISO-8601 text with a blank between date and time
datetime_str(d) == [iso |-> d]

\* datetime.fromisoformat
fromisoformat(text) ==
    IF DOMAIN text = {"iso"} THEN [ok |-> TRUE, value |-> text.iso] ELSE [ok |-> FALSE]

\* Line 672: json.dump(asdict(opportunity), default=str).  A str stays, None
\* becomes null, and what json cannot encode (an Enum member, a datetime) is
\* written as its str().
serialize(o) ==
    [title |-> o.title,
     description |-> o.description,
     tender_id |-> o.tender_id,
     source_site |-> o.source_site,
     closing_date |-> IF o.closing_date = None THEN None
                      ELSE Some(datetime_str(o.closing_date.value)),
     status |-> enum_str("TenderStatus", o.status),
     service_areas_matched |->
         [i \in 1..Len(o.service_areas_matched) |->
             enum_str("ServiceArea", o.service_areas_matched[i])],
     keywords_matched |-> o.keywords_matched,
     opportunity_score |-> enum_str("OpportunityScore", o.opportunity_score),
     ai_analysis |-> o.ai_analysis,
     timestamp |-> datetime_str(o.timestamp)]

\* What a file holds when the write failed after open(filepath, 'w').
Truncated == [truncated |-> TRUE]

\* Lines 751-765: the record a file's content gives, or the exception the
\* conversions raise (json.load fails on a truncated file).
deserialize(data) ==
    IF data = Truncated THEN [ok |-> FALSE]
    ELSE LET status == enum_of_value(TenderStatus, data.status)
             score == enum_of_value(OpportunityScore, data.opportunity_score)
             areas == [i \in 1..Len(data.service_areas_matched) |->
                          enum_of_value(ServiceArea, data.service_areas_matched[i])]
             timestamp == fromisoformat(data.timestamp)
             closing == IF data.closing_date = None THEN [ok |-> TRUE, value |-> None]
                        ELSE LET c == fromisoformat(data.closing_date.value)
                             IN  IF c.ok THEN [ok |-> TRUE, value |-> Some(c.value)]
                                 ELSE [ok |-> FALSE]
         IN  IF /\ status.ok
                /\ score.ok
                /\ \A i \in 1..Len(areas) : areas[i].ok
                /\ timestamp.ok
                /\ closing.ok
             THEN [ok |-> TRUE,
                   value |-> [title |-> data.title,
                              description |-> data.description,
                              tender_id |-> data.tender_id,
                              source_site |-> data.source_site,
                              closing_date |-> closing.value,
                              status |-> status.member,
                              service_areas_matched |->
                                  [i \in 1..Len(areas) |-> areas[i].member],
                              keywords_matched |-> data.keywords_matched,
                              opportunity_score |-> score.member,
                              ai_analysis |-> data.ai_analysis,
                              timestamp |-> timestamp.value]]
             ELSE [ok |-> FALSE]

\* All the orders in which a finite set can be listed.
RECURSIVE Orderings(_)
Orderings(S) ==
    IF S = {} THEN {<<>>}
    ELSE UNION {{<<x>> \o rest : rest \in Orderings(S \ {x})} : x \in S}

\* A load of one day that gives up the day's files when one of them fails.
loads_of_day_all_or_nothing(dir, day) ==
    LET names == {n \in DOMAIN dir : n.date = day}
    IN  IF \E n \in names : ~deserialize(dir[n]).ok THEN {<<>>}
        ELSE {[i \in 1..Len(order) |-> deserialize(dir[order[i]]).value] :
                 order \in Orderings(names)}

\* Lines 749-768 for one day: the files of that day that deserialize, in the
\* order glob lists them (any order).
loads_of_day(dir, day) ==
    LET names == {n \in DOMAIN dir : n.date = day /\ deserialize(dir[n]).ok}
    IN  {[i \in 1..Len(order) |-> deserialize(dir[order[i]]).value] :
            order \in Orderings(names)}

\* _load_recent_opportunities: the possible results, the days from
\* end_date - days_back to end_date in order
RECURSIVE loads_from(_, _, _)
loads_from(dir, day, end_date) ==
    IF day > end_date THEN {<<>>}
    ELSE {first \o rest : first \in loads_of_day(dir, day),
                          rest \in loads_from(dir, day + 1, end_date)}

load_recent_opportunities(dir, end_date, days_back) ==
    loads_from(dir, end_date - days_back, end_date)

-----------------------------------------------------------------------------
(* The state after construction: the registry with its sites active or   *)
(* not, an empty data_dir, no scan running.                               *)

Registries ==
    { [i \in 1..MaxSites |->
          [name |-> SiteCatalog[i].name, url |-> SiteCatalog[i].url,
           active |-> act[i], last_checked |-> None]] :
        act \in [1..MaxSites -> BOOLEAN] }

NoFiles == [n \in {} |-> Truncated]

Init ==
    /\ tender_sites \in Registries
    /\ today = 1
    /\ files = NoFiles
    /\ pc = "idle"
    /\ scans = 0
    /\ site_idx = 0
    /\ items_left = 0
    /\ listings_left = 0
    /\ opportunities = <<>>
    /\ opp_idx = 0
    /\ all_opportunities = <<>>
    /\ outcome = [kind |-> "none"]
    /\ log = {}
    /\ site_records = <<>>
    /\ loaded = None
    /\ call = None

site == tender_sites[site_idx]

\* logger.error, by the site at hand and the stage that failed
error(stage) == [site |-> site_idx, stage |-> stage]

-----------------------------------------------------------------------------
(* monitor_all_sites (lines 613-664), step by step.                        *)

\* Lines 615-617: the call.
StartScan ==
    /\ pc = "idle"
    /\ scans < MaxScans
    /\ scans' = scans + 1
    /\ pc' = "site"
    /\ site_idx' = 1
    /\ all_opportunities' = <<>>
    /\ opportunities' = <<>>
    /\ outcome' = [kind |-> "none"]
    /\ log' = {}
    /\ site_records' = <<>>
    /\ listings_left' = MaxListings
    /\ UNCHANGED <<tender_sites, today, files, items_left, opp_idx, loaded, call>>

\* Lines 619-621: an inactive site is passed over.
SkipInactive ==
    /\ pc = "site"
    /\ site_idx <= Len(tender_sites)
    /\ ~site.active
    /\ site_idx' = site_idx + 1
    /\ UNCHANGED <<tender_sites, today, files, pc, scans, items_left, listings_left,
                   opportunities, opp_idx, all_opportunities, outcome, log,
                   site_records, loaded, call>>

\* A fetch whose exception is not caught at the site: it ends the scan.
FetchFailsAborts ==
    /\ pc = "site"
    /\ site_idx <= Len(tender_sites)
    /\ site.active
    /\ pc' = "idle"
    /\ outcome' = [kind |-> "raised"]
    /\ UNCHANGED <<tender_sites, today, files, scans, site_idx, items_left,
                   listings_left, opportunities, opp_idx, all_opportunities,
                   log, site_records, loaded, call>>

\* The strategy's fetch (lines 323-337, 357-363, 381-387, 404-418) raises: the
\* strategy's except logs it and returns its still empty list.
FetchFails ==
    /\ pc = "site"
    /\ site_idx <= Len(tender_sites)
    /\ site.active
    /\ log' = log \cup {error("fetch")}
    /\ opportunities' = <<>>
    /\ opp_idx' = 1
    /\ pc' = "analyze"
    /\ UNCHANGED <<tender_sites, today, files, scans, site_idx, items_left,
                   listings_left, all_opportunities, outcome, site_records,
                   loaded, call>>

\* The elements a strategy visits at most (lines 339, 365, 389, 420).
page_cut(s) == IF s \in {"ungm", "generic"} THEN 20 ELSE 15

\* The strategy's fetch returns a page with n listing elements.
FetchPage(n) ==
    /\ pc = "site"
    /\ site_idx <= Len(tender_sites)
    /\ site.active
    /\ n <= page_cut(strategy(site))
    /\ items_left' = n
    /\ listings_left' = listings_left - n
    /\ opportunities' = <<>>
    /\ pc' = "extract"
    /\ UNCHANGED <<tender_sites, today, files, scans, site_idx, opp_idx,
                   all_opportunities, outcome, log, site_records, loaded, call>>

\* One turn of the strategy's loop (lines 339-342, 365-368, 389-392, 420-423).
ExtractItem(element) ==
    /\ pc = "extract"
    /\ items_left > 0
    /\ LET opportunity == extract_tender_info(element, site, today)
       IN  /\ opportunities' =
                 IF /\ opportunity # None
                    /\ contains_relevant_keywords(
                           opportunity.value.title \o " " \o opportunity.value.description,
                           monitor_keywords)
                 THEN Append(opportunities, opportunity.value)
                 ELSE opportunities
           /\ log' = IF element.title # "" /\ element.broken
                          THEN log \cup {error("extract")}
                          ELSE log
    /\ items_left' = items_left - 1
    /\ UNCHANGED <<tender_sites, today, files, pc, scans, site_idx, listings_left,
                   opp_idx, all_opportunities, outcome, site_records, loaded, call>>

\* The loop is over.  The UNGM strategy then quits its browser inside the try
\* (line 344): when that raises, the except logs it and the list is returned
\* as it stands (lines 346-349).
EndScrape(quit_ok) ==
    /\ pc = "extract"
    /\ items_left = 0
    /\ quit_ok \/ strategy(site) = "ungm"
    /\ log' = IF quit_ok THEN log ELSE log \cup {error("teardown")}
    /\ opp_idx' = 1
    /\ pc' = "analyze"
    /\ UNCHANGED <<tender_sites, today, files, scans, site_idx, items_left,
                   listings_left, opportunities, all_opportunities, outcome,
                   site_records, loaded, call>>

\* Lines 629-641: one turn of the analysis loop, with the replies of the two
\* external calls.
AnalyzeOpportunity(ctx_reply, narrative_reply) ==
    /\ pc = "analyze"
    /\ opp_idx <= Len(opportunities)
    /\ opportunities' = [opportunities EXCEPT
                            ![opp_idx] = analyzed(@, ctx_reply, narrative_reply)]
    /\ log' = IF narrative_reply.kind = "raise"
              THEN log \cup {error("narrative")}  \* line 288; line 236 logs nothing
              ELSE log
    /\ opp_idx' = opp_idx + 1
    /\ UNCHANGED <<tender_sites, today, files, pc, scans, site_idx, items_left,
                   listings_left, all_opportunities, outcome, site_records,
                   loaded, call>>

\* A site whose records are put in front of those of the sites before it.
FinishSitePrepends ==
    /\ pc = "analyze"
    /\ opp_idx > Len(opportunities)
    /\ all_opportunities' = relevant_opportunities(opportunities) \o all_opportunities
    /\ tender_sites' = [tender_sites EXCEPT ![site_idx].last_checked = Some(today)]
    /\ site_records' = (site_idx :> opportunities) @@ site_records
    /\ site_idx' = site_idx + 1
    /\ pc' = "site"
    /\ UNCHANGED <<today, files, scans, items_left, listings_left, opportunities,
                   opp_idx, outcome, log, loaded, call>>

\* Lines 643-654: the site's records are filtered and added, the site is stamped.
FinishSite ==
    /\ pc = "analyze"
    /\ opp_idx > Len(opportunities)
    /\ all_opportunities' = all_opportunities \o relevant_opportunities(opportunities)
    /\ tender_sites' = [tender_sites EXCEPT ![site_idx].last_checked = Some(today)]
    /\ site_records' = (site_idx :> opportunities) @@ site_records
    /\ site_idx' = site_idx + 1
    /\ pc' = "site"
    /\ UNCHANGED <<today, files, scans, items_left, listings_left, opportunities,
                   opp_idx, outcome, log, loaded, call>>

\* Line 659: the loop over the sites is over.
SitesDone ==
    /\ pc = "site"
    /\ site_idx > Len(tender_sites)
    /\ opp_idx' = 1
    /\ pc' = "save"
    /\ UNCHANGED <<tender_sites, today, files, scans, site_idx, items_left,
                   listings_left, opportunities, all_opportunities, outcome,
                   log, site_records, loaded, call>>

\* The ways a write can end: done, open() raises, or the dump raises after
\* open() has emptied the file.
WriteResults == {"ok", "open_raises", "dump_raises"}

\* _save_opportunity (lines 666-672): the files after the write
save_opportunity(dir, opportunity, result) ==
    IF result = "ok" THEN (filename(opportunity) :> serialize(opportunity)) @@ dir
    ELSE IF result = "dump_raises" THEN (filename(opportunity) :> Truncated) @@ dir
    ELSE dir

\* Lines 660-661: one turn of the save loop.  Nothing catches what
\* _save_opportunity raises: it leaves monitor_all_sites.
SaveOpportunity(result) ==
    /\ pc = "save"
    /\ opp_idx <= Len(all_opportunities)
    /\ files' = save_opportunity(files, all_opportunities[opp_idx], result)
    /\ loaded' = None
    /\ IF result = "ok"
       THEN /\ opp_idx' = opp_idx + 1
            /\ UNCHANGED <<pc, outcome, log>>
       ELSE /\ pc' = "idle"
            /\ outcome' = [kind |-> "raised"]
            /\ UNCHANGED <<opp_idx, log>>
    /\ UNCHANGED <<tender_sites, today, scans, site_idx, items_left, listings_left,
                   opportunities, all_opportunities, site_records, call>>

\* Lines 663-664
ReturnOpportunities ==
    /\ pc = "save"
    /\ opp_idx > Len(all_opportunities)
    /\ outcome' = [kind |-> "returned", value |-> all_opportunities]
    /\ pc' = "idle"
    /\ UNCHANGED <<tender_sites, today, files, scans, site_idx, items_left,
                   listings_left, opportunities, opp_idx, all_opportunities,
                   log, site_records, loaded, call>>

Next ==
    \/ StartScan
    \/ SkipInactive
    \/ FetchFails
    \/ \E n \in 0..listings_left : FetchPage(n)
    \/ \E element \in Elements : ExtractItem(element)
    \/ \E quit_ok \in BOOLEAN : EndScrape(quit_ok)
    \/ \E c \in ScanContextReplies, n \in ScanNarrativeReplies : AnalyzeOpportunity(c, n)
    \/ FinishSite
    \/ SitesDone
    \/ \E result \in WriteResults : SaveOpportunity(result)
    \/ ReturnOpportunities

Spec == Init /\ [][Next]_vars

-----------------------------------------------------------------------------
(* The opportunity store on its own: records are saved and ranges loaded  *)
(* as the days pass.                                                       *)

\* The reply of a narrative call that succeeds.
NarrativeOk == [kind |-> "ok", content |-> Some("Strong fit.")]

\* Records a scan of the first site returns on day `now`: what extraction and
\* analysis make of the listing elements titled "Actuarial Services", kept
\* when MEDIUM or HIGH.
StoreRecords(now) ==
    LET extracted == {extract_tender_info(e, SiteCatalog[1], now) :
                         e \in {x \in Elements : x.title = "Actuarial Services"}}
        scored == {analyzed(x.value, c, NarrativeOk) :
                      x \in extracted \ {None}, c \in ScanContextReplies}
    IN  {o \in scored : o.opportunity_score \in relevant_scores}

\* The records of day 0, computed once; a record of another day differs in
\* its timestamp alone.
StoreRecords0 == StoreRecords(0)

\* days_back as the callers give it; 7 is the default (line 674).
DaysBack == {0, 1, 7}

\* _save_opportunity, called with a record of today.
StoreSave(opportunity, result) ==
    /\ pc = "idle"
    /\ files' = save_opportunity(files, [opportunity EXCEPT !.timestamp = today], result)
    /\ loaded' = None
    /\ UNCHANGED <<tender_sites, today, pc, scans, site_idx, items_left,
                   listings_left, opportunities, opp_idx, all_opportunities,
                   outcome, log, site_records, call>>

\* _load_recent_opportunities(days_back)
LoadRecent(days_back) ==
    /\ pc = "idle"
    /\ \E result \in load_recent_opportunities(files, today, days_back) :
           loaded' = Some([end_date |-> today, days_back |-> days_back,
                           opportunities |-> result])
    /\ UNCHANGED <<tender_sites, today, files, pc, scans, site_idx, items_left,
                   listings_left, opportunities, opp_idx, all_opportunities,
                   outcome, log, site_records, call>>

\* Midnight passes.
NextDay ==
    /\ pc = "idle"
    /\ today < MaxDay
    /\ today' = today + 1
    /\ UNCHANGED <<tender_sites, files, pc, scans, site_idx, items_left,
                   listings_left, opportunities, opp_idx, all_opportunities,
                   outcome, log, site_records, loaded, call>>

NextStore ==
    \/ \E o \in StoreRecords0, result \in WriteResults : StoreSave(o, result)
    \/ \E days_back \in DaysBack : LoadRecent(days_back)
    \/ NextDay

SpecStore == Init /\ [][NextStore]_vars

-----------------------------------------------------------------------------
(* The loader over a data_dir that also holds files _save_opportunity did *)
(* not write: _load_recent_opportunities reads every "<day>_*.json" there. *)

\* The tender ids of such files.
PlacedIds == {"F/1", "F/2"}

\* The JSON objects such a file can hold: one with the enums by their values,
\* as the loader's conversions expect them (lines 755-757), and one with a
\* status no TenderStatus member has.
PlacedContents(tender_id, day) ==
    LET good == [title |-> "Actuarial Services",
                 description |-> "",
                 tender_id |-> tender_id,
                 source_site |-> "UNGM",
                 closing_date |-> None,
                 status |-> "open",
                 service_areas_matched |-> <<"actuarial_services">>,
                 keywords_matched |-> <<"actuarial", "actuarial services">>,
                 opportunity_score |-> "medium",
                 ai_analysis |-> Some("Strong fit."),
                 timestamp |-> datetime_str(day)]
    IN  {good, [good EXCEPT !.status = "pending"]}

\* A file of today appears in data_dir.
PlaceFile(tender_id, content) ==
    /\ pc = "idle"
    /\ content \in PlacedContents(tender_id, today)
    /\ files' = ([date |-> today, id |-> replace(tender_id, "/", "_")] :> content)
                     @@ files
    /\ loaded' = None
    /\ UNCHANGED <<tender_sites, today, pc, scans, site_idx, items_left,
                   listings_left, opportunities, opp_idx, all_opportunities,
                   outcome, log, site_records, call>>

\* The records saved beside them: those of the listing without description
\* that carries an id.
LoadSaves == {o \in StoreRecords0 : o.tender_id = "T/1" /\ o.description = ""}

NextLoad ==
    \/ \E tender_id \in PlacedIds :
           \E content \in PlacedContents(tender_id, today) : PlaceFile(tender_id, content)
    \/ \E o \in LoadSaves, result \in WriteResults : StoreSave(o, result)
    \/ \E days_back \in DaysBack : LoadRecent(days_back)
    \/ NextDay

SpecLoad == Init /\ [][NextLoad]_vars

-----------------------------------------------------------------------------
(* The scraper's functions on their own: one call of one of them.         *)

\* The closing dates _extract_date (lines 489-507) can read from an element
\* given to the extractor alone, as day numbers: none, a day before today, a
\* day within the next seven, the seventh day after today and the eighth.
ExtractClosingDates == ClosingDates \cup {Some(d) : d \in {0, 4, 8, 9}}

\* The elements given to the extractor alone: those of a scan, with and
\* without a closing date.
ExtractElements ==
    { [e EXCEPT !.closing = c] : e \in Elements, c \in ExtractClosingDates }

\* _extract_tender_info(element, site): what it returns and whether its
\* except branch logged an error (the href is read after the title check).
ExtractCall(element, s) ==
    /\ call = None
    /\ call' = Some([op |-> "extract_tender_info",
                     element |-> element,
                     result |-> extract_tender_info(element, s, today),
                     logged |-> element.title # "" /\ element.broken])
    /\ UNCHANGED <<tender_sites, today, files, pc, scans, site_idx, items_left,
                   listings_left, opportunities, opp_idx, all_opportunities,
                   outcome, log, site_records, loaded>>

\* _load_tender_sites (lines 552-611): the names and urls of the default
\* registry, in its order.
DefaultSites ==
    << [name |-> "UN Global Marketplace", url |-> "https://www.ungm.org/Public/Notice"],
       [name |-> "World Bank eProcurement", url |-> "https://projects.worldbank.org/procurement"],
       [name |-> "TED Europa", url |-> "https://ted.europa.eu/udl"],
       [name |-> "Africa Gateway", url |-> "https://www.africagateway.org/"],
       [name |-> "PPIP Kenya", url |-> "https://www.ppip.go.ke/"],
       [name |-> "UK Contracts Finder", url |-> "https://www.contractsfinder.service.gov.uk/"],
       [name |-> "Merx Canada", url |-> "https://www.merx.com/"] >>

\* The names the lists of lines 305 and 307 are written for, in two spellings.
BranchNames == {"UNGM", "ungm", "United Nations", "World Bank", "WorldBank"}

\* The sites given to the dispatch alone: the default names and the names of
\* the branches, each with each default url.
DispatchSites ==
    { [name |-> n, url |-> u] :
        n \in {DefaultSites[i].name : i \in DOMAIN DefaultSites} \cup BranchNames,
        u \in {DefaultSites[i].url : i \in DOMAIN DefaultSites} }

\* scrape_tender_site(site, keywords) up to the choice of the strategy: the
\* if/elif chain of lines 305-313 runs one branch.
DispatchCall(s) ==
    /\ call = None
    /\ call' = Some([op |-> "scrape_tender_site",
                     site |-> s,
                     strategy |-> strategy(s)])
    /\ UNCHANGED <<tender_sites, today, files, pc, scans, site_idx, items_left,
                   listings_left, opportunities, opp_idx, all_opportunities,
                   outcome, log, site_records, loaded>>

\* The texts an element matched by a selector can hold.
MatchTexts == {"", " ", "A", "B"}

\* What select_one can give for one selector.
Matches == {None} \cup {Some(t) : t \in MatchTexts}

\* The lists of matches of at most MaxSelectors selectors.
Found == UNION {[1..n -> Matches] : n \in 1..MaxSelectors}

\* _extract_text(element, selectors), the element and the selectors given by
\* the matches they produce.
ExtractTextCall(found) ==
    /\ call = None
    /\ call' = Some([op |-> "extract_text",
                     found |-> found,
                     result |-> extract_text(found)])
    /\ UNCHANGED <<tender_sites, today, files, pc, scans, site_idx, items_left,
                   listings_left, opportunities, opp_idx, all_opportunities,
                   outcome, log, site_records, loaded>>

NextExtract ==
    \/ \E element \in ExtractElements, i \in 1..Len(tender_sites) :
           ExtractCall(element, tender_sites[i])
    \/ \E found \in Found : ExtractTextCall(found)
    \/ \E s \in DispatchSites : DispatchCall(s)

SpecExtract == Init /\ [][NextExtract]_vars

-----------------------------------------------------------------------------
(* The analyzer on its own: one direct call of                            *)
(* _calculate_opportunity_score or of analyze_tender, over the replies    *)
(* the external calls can give.                                            *)

ReplyAlphabet ==
    {"0", "1", "2", "3", "4", "5", "6", "7", "8", "9", " ", "-", "x"}

\* The texts of at most n characters
RECURSIVE Texts(_)
Texts(n) ==
    IF n = 0 THEN {""}
    ELSE {""} \cup {c \o t : c \in ReplyAlphabet, t \in Texts(n - 1)}

\* The replies of the context-scoring call: an exception, a message without
\* content, a message with a text.
ContextReplies ==
    {[kind |-> "raise"], [kind |-> "ok", content |-> None]}
        \cup {[kind |-> "ok", content |-> Some(t)] : t \in Texts(MaxContentLen)}

\* The replies of the narrative call.
NarrativeReplies ==
    {[kind |-> "raise"], NarrativeOk, [kind |-> "ok", content |-> None]}

\* The arguments of analyze_tender: the listings of the scans, and a request
\* for proposal given by its text and its title (whose dash, which no
\* keyword holds, is written as a hyphen).
AnalyzerListings ==
    Listings \cup
        {[title |-> "RFP - Actuarial Services",
          description |->
              "Request for Proposal: Actuarial valuation and IFRS 17 implementation support"]}

\* The replies of the context-scoring call to analyze_tender.
AnalyzerContextReplies ==
    ScanContextReplies \cup {[kind |-> "ok", content |-> Some("25")]}

\* _calculate_opportunity_score(keywords, tender_text); context_score is its
\* local of that name.
ScoreCall(keywords, reply) ==
    /\ call = None
    /\ call' = Some([op |-> "calculate_opportunity_score",
                     keywords |-> keywords,
                     ctx_reply |-> reply,
                     context_score |-> context_score(reply),
                     opportunity_score |-> calculate_opportunity_score(keywords, reply)])
    /\ UNCHANGED <<tender_sites, today, files, pc, scans, site_idx, items_left,
                   listings_left, opportunities, opp_idx, all_opportunities,
                   outcome, log, site_records, loaded>>

\* analyze_tender(tender_text, tender_title, tender_url)
AnalyzeCall(listing, ctx_reply, narrative_reply) ==
    /\ call = None
    /\ call' = Some([op |-> "analyze_tender",
                     tender_text |-> listing.description,
                     tender_title |-> listing.title,
                     ctx_reply |-> ctx_reply,
                     narrative_reply |-> narrative_reply,
                     result |-> analyze_tender(listing.description, listing.title,
                                               ctx_reply, narrative_reply)])
    /\ UNCHANGED <<tender_sites, today, files, pc, scans, site_idx, items_left,
                   listings_left, opportunities, opp_idx, all_opportunities,
                   outcome, log, site_records, loaded>>

NextScore ==
    \/ \E k \in 0..MaxMatched, reply \in ContextReplies :
           ScoreCall(SubSeq(all_keywords, 1, k), reply)
    \/ \E listing \in AnalyzerListings, c \in AnalyzerContextReplies,
          n \in NarrativeReplies :
           AnalyzeCall(listing, c, n)

SpecScore == Init /\ [][NextScore]_vars

-----------------------------------------------------------------------------
(* Properties of the scan (specification Spec).                            *)

\* The scan at hand is over: monitor_all_sites has returned or raised.
ScanOver == scans > 0 /\ pc = "idle"

\* The sites of the registry that are active.
ActiveSites == {i \in 1..Len(tender_sites) : tender_sites[i].active}

\* The sites for which the log holds an error of one of the stages.
SitesLogged(stages) == {e.site : e \in {x \in log : x.stage \in stages}}

\* The records of a list that come from site i.
FromSite(opps, i) == {o \in Range(opps) : o.source_site = tender_sites[i].name}

MediumOrHigh(opps) ==
    SelectList(opps, {o \in Range(opps) : o.opportunity_score \in {"MEDIUM", "HIGH"}})

\* The MEDIUM and HIGH records of the sites i..n as analyzed, in registry order.
RECURSIVE Qualifying(_, _)
Qualifying(i, n) ==
    IF i > n THEN <<>>
    ELSE (IF i \in DOMAIN site_records THEN MediumOrHigh(site_records[i]) ELSE <<>>)
             \o Qualifying(i + 1, n)

\* C1: every record a scan returns is MEDIUM or HIGH, and no LOW or MINIMAL
\* record is in the list being built, in the returned list or in a file.
C1_OnlyMediumHighReturned ==
    /\ \A o \in Range(all_opportunities) : o.opportunity_score \in {"MEDIUM", "HIGH"}
    /\ outcome.kind = "returned" =>
           \A o \in Range(outcome.value) : o.opportunity_score \in {"MEDIUM", "HIGH"}
    /\ \A n \in DOMAIN files :
           files[n] # Truncated =>
               files[n].opportunity_score
                   \in {"OpportunityScore.MEDIUM", "OpportunityScore.HIGH"}

\* C1 witness: a scan has returned and saved a record while a LOW or MINIMAL
\* record of some site was computed and left out.
C1_Witness ==
    /\ outcome.kind = "returned"
    /\ outcome.value # <<>>
    /\ DOMAIN files # {}
    /\ \E i \in DOMAIN site_records :
           \E o \in Range(site_records[i]) : o.opportunity_score \in {"LOW", "MINIMAL"}

\* C2 as stated: once the scan has returned, a site with a failed fetch, a
\* failed extraction or a failed scoring call has no record in the result,
\* which holds the MEDIUM and HIGH records of the other sites.
C2_FailingSiteContributesNothing ==
    outcome.kind = "returned" =>
        /\ \A i \in SitesLogged({"fetch", "extract", "narrative"}) :
               FromSite(outcome.value, i) = {}
        /\ \A i \in ActiveSites \ SitesLogged({"fetch", "extract", "narrative"}) :
               \A o \in Range(MediumOrHigh(site_records[i])) : o \in Range(outcome.value)

\* C2 as amended: a fetch that raises empties that site only.  Once the
\* loop over the sites is over, every active site has been processed, the
\* site whose fetch failed has no record, the list built is the MEDIUM and
\* HIGH records of the sites in order, and it is what a scan that returns
\* returns.  A failed extraction or scoring call does not empty its site.
C2_FetchFailureIsolated ==
    (pc = "save" \/ ScanOver) =>
        /\ DOMAIN site_records = ActiveSites
        /\ \A i \in SitesLogged({"fetch"}) :
               /\ site_records[i] = <<>>
               /\ FromSite(all_opportunities, i) = {}
        /\ all_opportunities = Qualifying(1, Len(tender_sites))
        /\ outcome.kind = "returned" => outcome.value = all_opportunities

\* C2 witness: the first site's fetch failed and the scan returned a record
\* of a later site.
C2_Witness ==
    /\ outcome.kind = "returned"
    /\ \E i \in SitesLogged({"fetch"}) :
           \E j \in (i + 1)..Len(tender_sites) : FromSite(outcome.value, j) # {}

\* C3 as stated: a scan never raises for a failed write; it ends by
\* returning its list, with every record of the list in a file.
C3_WriteFailureContained ==
    ScanOver =>
        /\ outcome.kind = "returned"
        /\ \A o \in Range(all_opportunities) : filename(o) \in DOMAIN files

\* C9 as stated: a site for which the scraper logged a failure has no record
\* in the list being built, in the returned list or in a file.
C9_NoRecordOfFailedSite ==
    \A i \in SitesLogged({"fetch", "teardown"}) :
        /\ FromSite(all_opportunities, i) = {}
        /\ \A n \in DOMAIN files :
               files[n] # Truncated => files[n].source_site # tender_sites[i].name

\* C10 as stated: after a scan that returned (no write failed), each returned
\* record is in the file of its key.
C10_ReturnedAreStored ==
    outcome.kind = "returned" =>
        \A o \in Range(outcome.value) :
            /\ filename(o) \in DOMAIN files
            /\ files[filename(o)] = serialize(o)

-----------------------------------------------------------------------------
(* Properties of the store (specification SpecStore).                      *)

\* C4 as stated: after a load, every record saved in a file whose day is in
\* the range loaded is in the result, field by field.
C4_RoundTrip ==
    loaded # None =>
        \A n \in DOMAIN files :
            (/\ files[n] # Truncated
             /\ n.date \in (loaded.value.end_date - loaded.value.days_back)
                               ..loaded.value.end_date)
            => \E o \in Range(loaded.value.opportunities) : serialize(o) = files[n]

\* C5 as stated: a save that completes leaves the content of every file
\* written before as it was.
C5_SaveKeepsEarlierContent ==
    [][\A n \in DOMAIN files :
           (files[n] # Truncated /\ files'[n] # Truncated) => files'[n] = files[n]]_vars

-----------------------------------------------------------------------------
(* Properties of the analyzer (specification SpecScore).                   *)

Decimals == <<"1", "2", "3", "4", "5", "6", "7", "8", "9">>

\* The decimal text of an integer
RECURSIVE DecimalText(_)
DecimalText(n) ==
    IF n < 0 THEN "-" \o DecimalText(0 - n)
    ELSE IF n = 0 THEN "0"
    ELSE IF n < 10 THEN Decimals[n]
    ELSE DecimalText(n \div 10) \o (IF n % 10 = 0 THEN "0" ELSE Decimals[n % 10])

\* C6: the score of k matched keywords and context score c in 0..40 is the
\* bucket of min(10k, 60) + c; the keyword score never decreases in k and is
\* 60 from k = 6 on; the totals next to the thresholds fall as listed.
C6_ScoreIsBucketOfTotal ==
    /\ (call # None /\ call.value.op = "calculate_opportunity_score") =>
           LET k == Len(call.value.keywords)
               c == call.value.context_score
               t == (IF k >= 6 THEN 60 ELSE 10 * k) + c
           IN  /\ c \in 0..40
               /\ t >= 80 => call.value.opportunity_score = "HIGH"
               /\ (50 <= t /\ t < 80) => call.value.opportunity_score = "MEDIUM"
               /\ (20 <= t /\ t < 50) => call.value.opportunity_score = "LOW"
               /\ t < 20 => call.value.opportunity_score = "MINIMAL"
    /\ \A k \in 0..MaxMatched :
           /\ k < MaxMatched =>
                  keyword_score(SubSeq(all_keywords, 1, k))
                      <= keyword_score(SubSeq(all_keywords, 1, k + 1))
           /\ k >= 6 => keyword_score(SubSeq(all_keywords, 1, k)) = 60
    /\ <<bucket(79), bucket(80), bucket(49), bucket(50), bucket(19), bucket(20)>>
           = <<"MEDIUM", "HIGH", "LOW", "MEDIUM", "MINIMAL", "LOW">>

\* C6 witness: seven keywords (the keyword score is capped) and a context
\* score of 19 give the total 79, scored MEDIUM.
C6_Witness ==
    /\ call # None
    /\ call.value.op = "calculate_opportunity_score"
    /\ Len(call.value.keywords) = 7
    /\ call.value.context_score = 19
    /\ call.value.opportunity_score = "MEDIUM"

\* C7: when the context-scoring call raises, or replies without content or
\* with a text that has no digit or holds a letter, the context score is 20;
\* when it replies with the decimal text of an integer, the context score is
\* that integer brought into 0..40; a score is returned in every case.
C7_ContextScoreFallback ==
    (call # None /\ call.value.op = "calculate_opportunity_score") =>
        LET reply == call.value.ctx_reply
            c == call.value.context_score
        IN  /\ reply.kind = "raise" => c = 20
            /\ (reply.kind = "ok" /\ reply.content = None) => c = 20
            /\ (reply.kind = "ok" /\ reply.content # None) =>
                   /\ contains("x", reply.content.value) => c = 20
                   /\ (\A i \in 1..Len(reply.content.value) :
                           SubSeq(reply.content.value, i, i) \in {" ", "-"}) => c = 20
                   /\ \A n \in -99..999 :
                          reply.content.value = DecimalText(n) =>
                              c = (IF n < 0 THEN 0 ELSE IF n > 40 THEN 40 ELSE n)
            /\ call.value.opportunity_score \in {"HIGH", "MEDIUM", "LOW", "MINIMAL"}

\* C7 witness: the call raised and the context score is the default.
C7_Witness ==
    /\ call # None
    /\ call.value.op = "calculate_opportunity_score"
    /\ call.value.ctx_reply.kind = "raise"
    /\ call.value.context_score = 20

\* The title-cased name of a service area, as the fallback text shows it.
AreaShown ==
    [IFRS17 |-> "Ifrs17", PENSION_CONSULTING |-> "Pension Consulting",
     ERM |-> "Enterprise Risk Management", ESG_CONSULTING |-> "Esg Consulting",
     REGULATORY_COMPLIANCE |-> "Regulatory Compliance",
     ACTUARIAL_SERVICES |-> "Actuarial Services",
     INVESTMENT_CONSULTING |-> "Investment Consulting",
     GOVERNANCE_RISK |-> "Governance Risk"]

\* C8: when the narrative call raises, analyze_tender returns the fixed
\* fallback text, which is not empty and shows every matched service area,
\* whatever the context-scoring call of the same record did.
C8_NarrativeFallback ==
    (/\ call # None
     /\ call.value.op = "analyze_tender"
     /\ call.value.narrative_reply.kind = "raise") =>
        LET r == call.value.result
            head == "Analysis error occurred. Manual review required. Matched areas: "
        IN  /\ r.ai_analysis # None
            /\ r.ai_analysis.value # ""
            /\ prefix(r.ai_analysis.value, Len(head)) = head
            /\ \A i \in 1..Len(r.service_areas) :
                   contains(AreaShown[r.service_areas[i]], r.ai_analysis.value)
            /\ \A c \in ScanContextReplies :
                   analyze_tender(call.value.tender_text, call.value.tender_title,
                                  c, call.value.narrative_reply).ai_analysis
                       = r.ai_analysis

\* C8 witness: both external calls raised for a text that matches service
\* areas, and the fallback text is returned.
C8_Witness ==
    /\ call # None
    /\ call.value.op = "analyze_tender"
    /\ call.value.narrative_reply.kind = "raise"
    /\ call.value.ctx_reply.kind = "raise"
    /\ Len(call.value.result.service_areas) >= 2
    /\ call.value.result.ai_analysis # None

-----------------------------------------------------------------------------
(* Properties of the loader (specification SpecLoad).                      *)

EnumValues(enum) == {enum[m] : m \in DOMAIN enum}

\* The file holds a JSON object the loader's conversions accept.
WellFormed(content) ==
    /\ content # Truncated
    /\ content.status \in EnumValues(TenderStatus)
    /\ content.opportunity_score \in EnumValues(OpportunityScore)
    /\ \A i \in 1..Len(content.service_areas_matched) :
           content.service_areas_matched[i] \in EnumValues(ServiceArea)
    /\ DOMAIN content.timestamp = {"iso"}

\* The files whose day is in the range of the last load.
FilesInRange ==
    {n \in DOMAIN files :
        n.date \in (loaded.value.end_date - loaded.value.days_back)
                       ..loaded.value.end_date}

\* The loaded record is the one the file holds.
LoadedFrom(o, content) ==
    /\ o.tender_id = content.tender_id
    /\ o.title = content.title
    /\ o.timestamp = content.timestamp.iso
    /\ OpportunityScore[o.opportunity_score] = content.opportunity_score
    /\ TenderStatus[o.status] = content.status

\* C11: a load returns a list (it does not raise) that holds one record for
\* every well-formed file of the range and none for a file that fails to
\* parse or to convert.
C11_LoadSkipsBadFilesOnly ==
    loaded # None =>
        LET result == loaded.value.opportunities
            good == {n \in FilesInRange : WellFormed(files[n])}
        IN  /\ \A n \in good : \E o \in Range(result) : LoadedFrom(o, files[n])
            /\ \A o \in Range(result) : \E n \in good : LoadedFrom(o, files[n])
            /\ Len(result) = Cardinality(good)

\* C11 witness: the range holds a truncated file, a file with a bad enum text
\* and a well-formed file, and the load returned a record.
C11_Witness ==
    /\ loaded # None
    /\ \E n \in FilesInRange : files[n] = Truncated
    /\ \E n \in FilesInRange : files[n] # Truncated /\ ~WellFormed(files[n])
    /\ \E n \in FilesInRange : WellFormed(files[n])
    /\ loaded.value.opportunities # <<>>

-----------------------------------------------------------------------------
(* Properties of the records of a scan (specification Spec).               *)

\* The records the sites processed so far produced, analyzed.
Produced == UNION {Range(site_records[i]) : i \in DOMAIN site_records}

\* The bucket of a total, by the thresholds of the scoring contract.
BucketOf(t) ==
    IF t >= 80 THEN "HIGH" ELSE IF t >= 50 THEN "MEDIUM"
    ELSE IF t >= 20 THEN "LOW" ELSE "MINIMAL"

\* The score the record's own keywords_matched give with context score c.
ScoreOfOwnKeywords(o, c) ==
    LET k == Len(o.keywords_matched)
    IN  BucketOf((IF 10 * k < 60 THEN 10 * k ELSE 60) + c)

\* C12 as stated: the score of every returned record is the bucket of
\* min(10 * len(keywords_matched), 60) + c for its own keywords_matched and a
\* context score c in 0..40 (the record does not keep c).
C12_ScoreFromOwnKeywords ==
    outcome.kind = "returned" =>
        \A o \in Range(outcome.value) :
            \E c \in 0..40 : o.opportunity_score = ScoreOfOwnKeywords(o, c)

\* The taxonomy keywords of a service area.
KeywordsOf(area) ==
    UNION {Range(service_keywords[i].keywords) :
              i \in {j \in 1..Len(service_keywords) : service_keywords[j].area = area}}

\* C13 as stated: in every record a scan produced, service_areas_matched is
\* not empty when keywords_matched holds a taxonomy keyword, and each matched
\* service area has one of its keywords in the record's keywords_matched.
C13_AreasFollowOwnKeywords ==
    \A o \in Produced :
        /\ (Range(o.keywords_matched) \cap Range(all_keywords) # {})
               => o.service_areas_matched # <<>>
        /\ \A a \in Range(o.service_areas_matched) :
               Range(o.keywords_matched) \cap KeywordsOf(a) # {}

-----------------------------------------------------------------------------
(* Properties of the keyword search (specification SpecScore).             *)

\* analyze_tender was called for the request for proposal, and the
\* context-scoring call replied 25.
ScenarioCall ==
    /\ call # None
    /\ call.value.op = "analyze_tender"
    /\ call.value.tender_text =
           "Request for Proposal: Actuarial valuation and IFRS 17 implementation support"
    /\ call.value.tender_title = "RFP - Actuarial Services"
    /\ call.value.ctx_reply = [kind |-> "ok", content |-> Some("25")]

\* C14 as stated: for the request for proposal the matched keywords are
\* exactly "actuarial", "actuarial valuation" and "IFRS 17", the areas include
\* Actuarial Services and IFRS17, the keyword score is 30, and with the
\* context score 25 the total is 55 and the bucket MEDIUM.
C14_ScenarioThreeKeywords ==
    ScenarioCall =>
        LET r == call.value.result
            keyword_points == IF 10 * Len(r.matched_keywords) < 60
                              THEN 10 * Len(r.matched_keywords) ELSE 60
        IN  /\ Range(r.matched_keywords) = {"actuarial", "actuarial valuation", "IFRS 17"}
            /\ {"ACTUARIAL_SERVICES", "IFRS17"} \subseteq Range(r.service_areas)
            /\ keyword_points = 30
            /\ r.context_score = 25
            /\ keyword_points + r.context_score = 55
            /\ r.opportunity_score = "MEDIUM"

\* C15 as stated: the sequence _find_keywords returns lists no keyword twice.
C15_NoDuplicateKeyword ==
    (call # None /\ call.value.op = "analyze_tender") =>
        LET found == call.value.result.matched_keywords
        IN  \A i, j \in 1..Len(found) : i # j => found[i] # found[j]

-----------------------------------------------------------------------------
(* Properties of the order and of the registry (specification Spec).       *)

\* The place in the registry of the site a record names.
RegistryIndex(o) == CHOOSE i \in 1..Len(tender_sites) : tender_sites[i].name = o.source_site

\* C16: in the returned list no record of a later registry site precedes a
\* record of an earlier one, and two records of one site are in the order in
\* which the site's scrape extracted them.
C16_RegistryThenExtractionOrder ==
    outcome.kind = "returned" =>
        \A i, j \in 1..Len(outcome.value) :
            i < j =>
                LET a == outcome.value[i]
                    b == outcome.value[j]
                IN  /\ RegistryIndex(a) <= RegistryIndex(b)
                    /\ RegistryIndex(a) = RegistryIndex(b) =>
                           \E p, q \in 1..Len(site_records[RegistryIndex(a)]) :
                               /\ p < q
                               /\ site_records[RegistryIndex(a)][p] = a
                               /\ site_records[RegistryIndex(a)][q] = b

\* C16 witness: the scan returned a record of the first site followed by a
\* record of the second.
C16_Witness ==
    /\ outcome.kind = "returned"
    /\ Len(outcome.value) = 2
    /\ RegistryIndex(outcome.value[1]) = 1
    /\ RegistryIndex(outcome.value[2]) = 2

\* C17 as stated: once the loop over the sites is over, last_checked is set
\* for the active sites whose scrape succeeded, and an inactive site or a site
\* whose fetch failed has the value it had before the scan (none).
C17_LastCheckedOnlyOnSuccess ==
    (pc = "save" \/ ScanOver) =>
        \A i \in 1..Len(tender_sites) :
            IF i \in ActiveSites \ SitesLogged({"fetch"})
            THEN tender_sites[i].last_checked = Some(today)
            ELSE tender_sites[i].last_checked = None

-----------------------------------------------------------------------------
(* Properties of the extractor (specification SpecExtract).                *)

\* C18: for an element from which no title is extracted the extractor
\* returns nothing and logs no error, and no record it returns has an empty
\* title.
C18_NoRecordWithoutTitle ==
    (call # None /\ call.value.op = "extract_tender_info") =>
        /\ call.value.element.title = "" =>
               (call.value.result = None /\ ~call.value.logged)
        /\ call.value.result # None => call.value.result.value.title # ""

\* C18 witness: the extractor was given an element with a description and
\* no title, and returned nothing.
C18_Witness ==
    /\ call # None
    /\ call.value.op = "extract_tender_info"
    /\ call.value.element.title = ""
    /\ call.value.element.description # ""
    /\ ~call.value.element.broken
    /\ call.value.result = None

-----------------------------------------------------------------------------
(* Properties of the keys and of the extraction loop (specification Spec). *)

\* C19 as stated: two returned records of one scan (one day) that differ in
\* source site or in tender_id have different file names.
C19_DistinctRecordsDistinctKeys ==
    outcome.kind = "returned" =>
        \A i, j \in 1..Len(outcome.value) :
            LET a == outcome.value[i]
                b == outcome.value[j]
            IN  (a.source_site # b.source_site \/ a.tender_id # b.tender_id)
                    => filename(a) # filename(b)

\* C20 as stated, for the records that matter to the result: a turn of the
\* extraction loop whose element gives a record that scoring puts in MEDIUM
\* or HIGH (for some reply of the context call) adds that record to the list
\* that is scored; the record is not dropped before scoring.
C20_ExtractedRecordIsScored ==
    [][\A element \in Elements :
           LET extracted == extract_tender_info(element, site, today)
           IN  (/\ ExtractItem(element)
                /\ extracted # None
                /\ \E c \in ScanContextReplies :
                       analyzed(extracted.value, c, NarrativeOk).opportunity_score
                           \in {"MEDIUM", "HIGH"})
               => opportunities' = Append(opportunities, extracted.value)]_vars

-----------------------------------------------------------------------------
(* Ordered-fallback extraction of a field.                                 *)

\* The candidates of a list of matches whose element holds some text other
\* than blanks.
NonEmptyAt(found) ==
    {k \in 1..Len(found) :
        found[k] # None /\ found[k].value \notin {"", " "}}

\* C21: the value _extract_text gives is the text of the first candidate
\* whose match has non-empty text, and "" when no candidate has one; a
\* candidate that matches an element without text does not stop the search.
C21_FirstNonEmptyMatchWins ==
    (call # None /\ call.value.op = "extract_text") =>
        LET found == call.value.found
            nonEmpty == NonEmptyAt(found)
        IN  IF nonEmpty = {} THEN call.value.result = ""
            ELSE call.value.result =
                   found[CHOOSE k \in nonEmpty : \A j \in nonEmpty : k <= j].value

-----------------------------------------------------------------------------
(* The status of a record.                                                 *)

\* The status the lifecycle gives a record closing on closing_date (None or
\* Some(day)) when today is now: CLOSED once the day is past, CLOSING_SOON
\* within seven days, OPEN otherwise.
LifecycleStatus(closing_date, now) ==
    IF closing_date = None THEN "OPEN"
    ELSE IF closing_date.value < now THEN "CLOSED"
    ELSE IF closing_date.value - now <= 7 THEN "CLOSING_SOON"
    ELSE "OPEN"

\* C22: every record a scan produces (a record of the extractor that passes
\* the scan's keyword filter, lines 341, 367, 391 and 422; nothing after
\* line 463 assigns its status) has status CLOSING_SOON when its closing_date
\* is at most 7 days after now, CLOSED when its closing_date is before now,
\* and OPEN only otherwise.
C22_StatusFollowsClosingDate ==
    (/\ call # None
     /\ call.value.op = "extract_tender_info"
     /\ call.value.result # None
     /\ contains_relevant_keywords(
            call.value.result.value.title \o " "
                \o call.value.result.value.description,
            monitor_keywords)) =>
        call.value.result.value.status =
            LifecycleStatus(call.value.result.value.closing_date, today)

-----------------------------------------------------------------------------
(* Strategy dispatch over the default registry.                            *)

\* The strategy the dispatch table gives a site of the default registry.
TableStrategy(name) ==
    CASE name = "UN Global Marketplace" -> "ungm"
      [] name = "World Bank eProcurement" -> "worldbank"
      [] name = "TED Europa" -> "ted"
      [] OTHER -> "generic"

\* C23: for a site of the default registry the one strategy that runs is the
\* UNGM strategy for "UN Global Marketplace", the World Bank strategy for
\* "World Bank eProcurement", the TED strategy for "TED Europa" and the
\* generic strategy for each of the other sites.
C23_DefaultRegistryDispatch ==
    (/\ call # None
     /\ call.value.op = "scrape_tender_site"
     /\ \E i \in DOMAIN DefaultSites : DefaultSites[i] = call.value.site) =>
        call.value.strategy = TableStrategy(call.value.site.name)

=============================================================================
